---- MODULE Spec2Model ----
(***************************************************************************)
(* A model of the b2 storage engine (Base in src/base.rs): the data        *)
(* directory with its numbered data files and .merge sidecars, the         *)
(* buffered active-file writer, the in-memory Keydir, open/recovery, the   *)
(* write path with rollover, get, flush, drop and merge; further           *)
(* specifications add damaged files, tasks behind the lock, and calls that *)
(* fail half-way.                                                          *)
(*                                                                         *)
(* A data file is the sequence of the records appended to it; byte         *)
(* positions are computed from the records' lengths, so that an            *)
(* EntryPointer is a (file, byte position, size) triple as in the code and *)
(* a read at a position that is not the start of a value is visible.       *)
(***************************************************************************)
EXTENDS Integers, Sequences, FiniteSets, TLC

\* ------------------------------------------------------------------ bounds
\* the number of records appended to the directory over a whole run
MaxAppends == 4
\* the greatest data file id (every open and every rollover takes a new one)
MaxFileId == 3
\* the same two bounds for the runs with the smallest file size, where every
\* write rolls over and a merge rolls its output over
TinyMaxAppends == 2
TinyMaxFileId == 4
\* the number of damaged places in the data files of a directory, and the
\* number of records appended before the damage
MaxFaults == 2
MaxFaultAppends == 2
\* the tasks that share one handle, and the records they append in all
NumTasks == 2
MaxLockAppends == 2
\* the records appended in the runs where a call can fail half-way
IoMaxAppends == 3

\* ---------------------------------------------------------- program constants
HASH_SIZE == 4
TX_ID_SIZE == 16
KEY_SIZE_SIZE == 2
VALUE_SIZE_SIZE == 4
HEADER_SIZE == HASH_SIZE + TX_ID_SIZE + KEY_SIZE_SIZE + VALUE_SIZE_SIZE

\* a value is the byte string the application hands to insert; n tells the
\* values of different inserts apart
TOMBSTONE_BYTES == [bytes |-> "bitcask_tombstone", n |-> 0]

DefaultMaxFileSize == 268435456
DefaultMaxReaders == 536870911
SmallMaxFileSize == 60
\* smaller than one record: every write reaches the threshold
TinyMaxFileSize == 40
\* the file size of the runs where a call can fail half-way: one record
\* fits, the second one reaches the threshold
IoMaxFileSize == 50

Keys == {"k1", "k2"}
\* every insert of a run writes a value no earlier insert wrote, so that a
\* read that returns the value of another record is told from the right one
Values == { [bytes |-> "v", n |-> n] : n \in 1..MaxAppends }
MaxFileSizes == {SmallMaxFileSize, DefaultMaxFileSize}
FlushBehaviors == {"AfterEveryWrite", "WhenFull"}

\* ------------------------------------------------------------------ encoder
\* bincode writes a string or byte slice as an 8-byte length prefix followed
\* by the bytes.
\* the length in bytes of the one key that is longer than a key_size field
\* can tell
LongKeyRawLen == 65530
LongKey == "k_long"
KeyRawLen(k) == IF k = LongKey THEN LongKeyRawLen ELSE 2
ValueRawLen(v) == IF v.bytes = "bitcask_tombstone" THEN 17 ELSE 2

EncodedKeyLen(k) == 8 + KeyRawLen(k)
EncodedValueLen(v) == 8 + ValueRawLen(v)

\* ------------------------------------------------------------------- record
\* `as u16` and `as u32` keep the low 16 and 32 bits (the latter computed in
\* two 16-bit limbs)
AsU16(n) == n % 65536
AsU32(n) == (n % 65536) + 65536 * ((n \div 65536) % 65536)

RecordNew(k, v, tx) ==
    [ tx_id      |-> tx,
      key_size   |-> AsU16(EncodedKeyLen(k)),
      value_size |-> AsU32(EncodedValueLen(v)),
      key        |-> k,
      value      |-> v,
      hash_ok    |-> TRUE,    \* the stored crc32 is the crc32 of the rest
      cut        |-> 0 ]      \* bytes of the image missing at the end of the file

\* Record::len : the length of the byte image
RecordLen(r) == HEADER_SIZE + EncodedKeyLen(r.key) + EncodedValueLen(r.value)

\* the bytes of the image of a record that are in its file
ImageLen(r) == RecordLen(r) - r.cut

\* a validity check that every record passes
AlwaysValid(r) == TRUE

\* Record::is_valid : the stored hash against the computed one; read_from
\* sizes the body it reads by the header's key_size and value_size, so the
\* hash is computed over the bytes written only when the two are their
\* lengths
is_valid(r) ==
    /\ r.hash_ok
    /\ r.key_size = EncodedKeyLen(r.key)
    /\ r.value_size = EncodedValueLen(r.value)

\* Record::read_from : read_exact of the header, then of the body; either
\* one ends in UnexpectedEof when the file ends first
read_from(r) ==
    IF ImageLen(r) < HEADER_SIZE THEN "UnexpectedEof"
    ELSE IF ImageLen(r) < RecordLen(r) THEN "UnexpectedEof"
    ELSE "Ok"

\* Record::liveness : byte equality of the value with the serialized tombstone
RecordLiveness(r) == IF r.value = TOMBSTONE_BYTES THEN "Deleted" ELSE "Live"

RECURSIVE SeqBytes(_)
SeqBytes(recs) ==
    IF recs = <<>> THEN 0
    ELSE ImageLen(Head(recs)) + SeqBytes(Tail(recs))

\* byte offset of the start of the i-th record of a file
RecStart(recs, i) == SeqBytes(SubSeq(recs, 1, i - 1))

\* ------------------------------------------------------------------ helpers
Max(S) == CHOOSE x \in S : \A y \in S : y <= x

RECURSIVE SortedSeq(_)
SortedSeq(S) ==
    IF S = {} THEN <<>>
    ELSE LET m == CHOOSE x \in S : \A y \in S : x <= y
         IN  <<m>> \o SortedSeq(S \ {m})

\* every listing order of a finite set
Orders(S) ==
    { s \in [1..Cardinality(S) -> S] : \A i, j \in 1..Cardinality(S) : s[i] = s[j] => i = j }

Put(f, k, e) == [x \in (DOMAIN f) \cup {k} |-> IF x = k THEN e ELSE f[x]]
Del(f, k) == [x \in (DOMAIN f) \ {k} |-> f[x]]

VARIABLES
    files,           \* data files on disk: FileId -> sequence of records
    sidecars,        \* <id>.merge files on disk: FileId -> sequence of records
    opened,          \* an engine (Base) exists for the directory
    options,         \* the Options the application opens the directory with
    keydir,          \* Base.keydir: key -> EntryPointer
    active_file,     \* records held in the BufWriter of the active file
    active_file_id,  \* Base.active_file_id
    offset,          \* Base.offset
    tx_id,           \* Base.tx_id
    lastOp,          \* the last operation and its result
    lastW,           \* history: the value last inserted for each key over all
                     \* sessions, "absent" if it was removed since or never written
    sessW,           \* history: the last write to each key on this handle: a
                     \* value, "rem" (removed after an insert on this handle), "none"
    everMax,         \* history: highest tx_id ever appended for each key
    maxTxAtOpen,     \* history: highest tx_id in the data files at open
    lastAppend,      \* history: tx_id of the last record appended on this handle
    failed,          \* history: an operation on this handle has failed
    appends,         \* history: the number of records appended so far
    rwlock,          \* B2.base, the RwLock around the engine: who holds it
    task,            \* the tasks that call the engine through clones of one handle
    wire,            \* history: the pieces handed to the active file's writer, in order
    writer_file_id,  \* the data file Base.active_file, the BufWriter, appends to
    merge_run        \* the call of merge in progress, between two of its I/O steps

vars == << files, sidecars, opened, options, keydir, active_file, active_file_id,
           offset, tx_id, lastOp, lastW, sessW, everMax, maxTxAtOpen,
           lastAppend, failed, appends, rwlock, task, wire,
           writer_file_id, merge_run >>

\* the tasks, the lock and the merge in progress; an operation taken as one
\* step leaves them alone
conc == << rwlock, task, wire, merge_run >>

hist == << lastW, sessW, everMax, maxTxAtOpen, lastAppend, failed, appends >>

EmptyMap == [x \in {} |-> 0]

\* ------------------------------------------------------------ Loadable scan
\* EntryWithLiveness::read_one : the entry of the record that starts at off
EntryWithLivenessRead(r, off, file_id) ==
    [ liveness |-> RecordLiveness(r),
      entry    |-> [ file_id        |-> file_id,
                     value_position |-> off + HEADER_SIZE + r.key_size,
                     value_size     |-> r.value_size,
                     tx_id          |-> r.tx_id ] ]

\* MergePointer scan : the pointer of the record that starts at off
MergePointerRead(r, off, file_id) ==
    [ liveness      |-> RecordLiveness(r),
      file_id       |-> file_id,
      tx_id         |-> r.tx_id,
      record_offset |-> off,
      record_size   |-> RecordLen(r),
      key_size      |-> r.key_size,
      value_size    |-> r.value_size ]

\* MergePointer::read as src/merge_pointer.rs has it: the pointer of the
\* record that starts at off. The running offset is advanced by the record's
\* length first, and body_position, "the absolute position of the beginning
\* of the body section of this record", is taken from the advanced offset.
MergePointer_read(r, off, file_id) ==
    LET offset_advanced == off + RecordLen(r)
        body_offset     == offset_advanced + HEADER_SIZE
    IN  [ liveness      |-> RecordLiveness(r),
          file_id       |-> file_id,
          tx_id         |-> r.tx_id,
          body_position |-> body_offset,
          body_size     |-> RecordLen(r) - HEADER_SIZE,
          key_size      |-> r.key_size,
          value_size    |-> r.value_size ]

ReadOne(kind, r, off, file_id) ==
    IF kind = "MergePointer" THEN MergePointerRead(r, off, file_id)
    ELSE IF kind = "MergePointer::read" THEN MergePointer_read(r, off, file_id)
    ELSE EntryWithLivenessRead(r, off, file_id)

\* the tx_id the PartialOrd of a loaded type compares
LoadedTxId(kind, e) ==
    IF kind \in {"MergePointer", "MergePointer::read"} THEN e.tx_id ELSE e.entry.tx_id

\* read_one on the next record of a file: Ok(None) when read_from meets the
\* end of the file, wherever in the record; Err(CorruptRecord) when the
\* record is read in full and is not valid
ReadOneResult(r) ==
    IF read_from(r) = "UnexpectedEof" THEN "None"
    ELSE IF ~is_valid(r) THEN "CorruptRecord"
    ELSE "Some"

\* Loadable::load_entries_from_file : records are read in file order until
\* read_one returns no record, the running offset advances by each record's
\* length, a later record of a key replaces the earlier one in the map
RECURSIVE ScanFile(_, _, _, _, _)
ScanFile(kind, recs, off, file_id, entries) ==
    IF recs = <<>> THEN entries
    ELSE LET r == Head(recs)
         IN  IF ReadOneResult(r) # "Some" THEN entries
             ELSE ScanFile(kind, Tail(recs), off + RecordLen(r), file_id,
                           Put(entries, r.key, ReadOne(kind, r, off, file_id)))

\* the error that ends the scan of a file, "none" when it ends at Ok(None)
RECURSIVE ScanError(_)
ScanError(recs) ==
    IF recs = <<>> THEN "none"
    ELSE IF ReadOneResult(Head(recs)) = "None" THEN "none"
    ELSE IF ReadOneResult(Head(recs)) = "CorruptRecord" THEN "CorruptRecord"
    ELSE ScanError(Tail(recs))

\* the error load_latest_entries returns with `?`: that of the first file,
\* in the order given, whose scan fails
RECURSIVE LoadError(_, _)
LoadError(fs, ids) ==
    IF ids = <<>> THEN "none"
    ELSE IF ScanError(fs[Head(ids)]) # "none" THEN ScanError(fs[Head(ids)])
    ELSE LoadError(fs, Tail(ids))

load_entries_from_file(kind, fs, file_id) ==
    ScanFile(kind, fs[file_id], 0, file_id, EmptyMap)

\* the fold of one per-file map into the accumulated map
FoldFile(kind, acc, file_entries) ==
    [ k \in (DOMAIN acc) \cup (DOMAIN file_entries) |->
        IF k \notin DOMAIN file_entries THEN acc[k]
        ELSE IF k \notin DOMAIN acc THEN file_entries[k]
        ELSE IF LoadedTxId(kind, file_entries[k]) > LoadedTxId(kind, acc[k])
             THEN file_entries[k]
             ELSE acc[k] ]

RECURSIVE FoldFiles(_, _, _, _)
FoldFiles(kind, fs, ids, acc) ==
    IF ids = <<>> THEN acc
    ELSE FoldFiles(kind, fs, Tail(ids),
                   FoldFile(kind, acc, load_entries_from_file(kind, fs, Head(ids))))

load_latest_entries(kind, fs, ids) == FoldFiles(kind, fs, ids, EmptyMap)

\* ------------------------------------------------------------------ Keydir
latest_tx_id(kd) ==
    IF DOMAIN kd = {} THEN 0 ELSE Max({ kd[k].tx_id : k \in DOMAIN kd })

\* ---------------------------------------------------------------- Base::get
Ok(v)  == [tag |-> "Some", val |-> v]
None   == [tag |-> "None", val |-> [bytes |-> "-", n |-> 0]]
Err(e) == [tag |-> "Err", val |-> [bytes |-> e, n |-> 0]]

\* the bytes at [pos, pos + size) of a file, decoded as a value
ReadValue(recs, pos, size) ==
    IF \E i \in 1..Len(recs) :
          /\ RecStart(recs, i) + HEADER_SIZE + EncodedKeyLen(recs[i].key) = pos
          /\ EncodedValueLen(recs[i].value) = size
    THEN LET i == CHOOSE i \in 1..Len(recs) :
                    /\ RecStart(recs, i) + HEADER_SIZE + EncodedKeyLen(recs[i].key) = pos
                    /\ EncodedValueLen(recs[i].value) = size
         IN  Ok(recs[i].value)
    ELSE IF pos + size <= SeqBytes(recs) \/ size = 0
         THEN Err("bytes that are not a value")
         ELSE Err("UnexpectedEof")

GetIn(fs, kd, k) ==
    IF k \in DOMAIN kd
    THEN LET entry == kd[k]
         IN  IF entry.file_id \notin DOMAIN fs THEN Err("NotFound")
             ELSE ReadValue(fs[entry.file_id], entry.value_position, entry.value_size)
    ELSE None

Get(k) == GetIn(files, keydir, k)

\* ----------------------------------------------------------------- history
Absent  == [bytes |-> "absent", n |-> 0]
NoWrite == [bytes |-> "none", n |-> 0]
Removed == [bytes |-> "removed", n |-> 0]

\* ------------------------------------------------------- tasks and the lock
Tasks == 1..NumTasks

\* a task between two calls
IdleTask ==
    [ pc |-> "idle", op |-> "none", key |-> "k1",
      record |-> RecordNew("k1", TOMBSTONE_BYTES, 0) ]

\* the RwLock with no guard out
FreeLock == [ writer |-> 0, readers |-> {} ]

\* no call of merge is in progress
NoMerge == [ phase |-> "none" ]

\* -------------------------------------------------------------------- Init
\* the bounds of a run, by the file size it is opened with
AppendBound ==
    IF options.max_file_size_bytes = TinyMaxFileSize THEN TinyMaxAppends
    ELSE IF options.max_file_size_bytes = IoMaxFileSize THEN IoMaxAppends
    ELSE MaxAppends
FileIdBound ==
    IF options.max_file_size_bytes = TinyMaxFileSize THEN TinyMaxFileId ELSE MaxFileId

\* an empty directory and no engine; the application's Options are drawn
\* from the given file sizes
InitWith(sizes) ==
    /\ files = EmptyMap
    /\ sidecars = EmptyMap
    /\ opened = FALSE
    /\ options \in [max_file_size_bytes : sizes, max_readers : {DefaultMaxReaders},
                     flush_behavior : FlushBehaviors]
    /\ keydir = EmptyMap
    /\ active_file = <<>>
    /\ active_file_id = 0
    /\ offset = 0
    /\ tx_id = 0
    /\ lastOp = [op |-> "init", res |-> "ok"]
    /\ lastW = [k \in Keys |-> Absent]
    /\ sessW = [k \in Keys |-> NoWrite]
    /\ everMax = [k \in Keys |-> 0]
    /\ maxTxAtOpen = 0
    /\ lastAppend = 0
    /\ failed = FALSE
    /\ appends = 0
    /\ rwlock = FreeLock
    /\ task = [t \in Tasks |-> IdleTask]
    /\ wire = <<>>
    /\ writer_file_id = 0
    /\ merge_run = NoMerge

Init == InitWith(MaxFileSizes)

\* all tx_ids of the records of a set of files
TxIdsIn(fs) == UNION { { fs[f][i].tx_id : i \in 1..Len(fs[f]) } : f \in DOMAIN fs }

MaxTxIdIn(fs) == IF TxIdsIn(fs) = {} THEN 0 ELSE Max(TxIdsIn(fs))

\* --------------------------------------------------------------- Base::new
\* the id of the active file taken from the number of data files
FileCountPlusOne(fs) == Cardinality(DOMAIN fs) + 1

\* the id of the fresh active file: one past the greatest data file id
NewActiveFileId(fs) ==
    LET db_file_ids == SortedSeq(DOMAIN fs)
        latest_file_id == IF db_file_ids = <<>> THEN 0 ELSE db_file_ids[Len(db_file_ids)]
    IN  latest_file_id + 1

\* the Keydir rebuilt from the data files: the latest entry of each key,
\* without the keys whose latest entry is a tombstone
RecoverKeydir(fs) ==
    LET all_entries_with_livenesses ==
            load_latest_entries("EntryWithLiveness", fs, SortedSeq(DOMAIN fs))
        live == { k \in DOMAIN all_entries_with_livenesses :
                    all_entries_with_livenesses[k].liveness # "Deleted" }
    IN  [ k \in live |-> all_entries_with_livenesses[k].entry ]

\* the tx_id counter of a fresh engine
InitialTxId(kd) == latest_tx_id(kd) + 1

Open ==
    /\ ~opened
    /\ NewActiveFileId(files) <= FileIdBound
    /\ LoadError(files, SortedSeq(DOMAIN files)) = "none"
    /\ files' = Put(files, NewActiveFileId(files), <<>>)
    /\ keydir' = RecoverKeydir(files)
    /\ active_file' = <<>>
    /\ active_file_id' = NewActiveFileId(files)
    /\ writer_file_id' = NewActiveFileId(files)
    /\ offset' = 0
    /\ tx_id' = InitialTxId(RecoverKeydir(files))
    /\ opened' = TRUE
    /\ lastOp' = [op |-> "open", res |-> "ok"]
    /\ sessW' = [k \in Keys |-> NoWrite]
    /\ maxTxAtOpen' = MaxTxIdIn(files)
    /\ lastAppend' = 0
    /\ failed' = FALSE
    /\ UNCHANGED << sidecars, options, lastW, everMax, appends >>
    /\ UNCHANGED conc

\* Base::new when the scan of the data files fails: the error is returned
\* before the active file is created
OpenFails ==
    /\ ~opened
    /\ LoadError(files, SortedSeq(DOMAIN files)) # "none"
    /\ lastOp' = [op |-> "open", res |-> LoadError(files, SortedSeq(DOMAIN files))]
    /\ UNCHANGED << files, sidecars, opened, options, keydir, active_file,
                    active_file_id, writer_file_id, offset, tx_id, hist >>
    /\ UNCHANGED conc

\* ------------------------------------------------------------- write path
\* a writer that is dropped or replaced without a flush
DiscardBuffered(fs, id, buffered) == fs

\* Base::flush : the buffered bytes go to the file of the writer; when that
\* file has been removed from the directory they are in no data file
FlushInto(fs, id, buffered) ==
    IF id \in DOMAIN fs THEN Put(fs, id, fs[id] \o buffered) ELSE fs

\* the byte position of the value of a record that starts at off
ValuePosition(off, record) == off + HEADER_SIZE + record.key_size

EntrySize(record) == HEADER_SIZE + record.key_size + record.value_size

\* the write offset once a write has finished, rolled over or not
OffsetAfterWrite(new_offset, rolled) == new_offset

\* the tail of write_insert and write_delete after the Keydir update: advance
\* the offset, roll over when the threshold is reached, flush when configured
WriteTail(record) ==
    LET buffered   == Append(active_file, record)
        new_offset == offset + EntrySize(record)
        rolled     == new_offset >= options.max_file_size_bytes
        files1     == IF rolled
                      THEN Put(FlushInto(files, writer_file_id, buffered),
                               active_file_id + 1, <<>>)
                      ELSE files
        buffered1  == IF rolled THEN <<>> ELSE buffered
        id1        == IF rolled THEN active_file_id + 1 ELSE active_file_id
        writer1    == IF rolled THEN active_file_id + 1 ELSE writer_file_id
        flushNow   == options.flush_behavior = "AfterEveryWrite"
    IN  /\ rolled => active_file_id < FileIdBound
        /\ rolled => (active_file_id + 1) \notin DOMAIN files
        /\ files' = IF flushNow THEN FlushInto(files1, writer1, buffered1) ELSE files1
        /\ active_file' = IF flushNow THEN <<>> ELSE buffered1
        /\ active_file_id' = id1
        /\ writer_file_id' = writer1
        /\ offset' = OffsetAfterWrite(new_offset, rolled)

NoteAppend(k, tx) ==
    /\ everMax' = [x \in DOMAIN everMax |->
                      IF x = k /\ tx > everMax[x] THEN tx ELSE everMax[x]]
    /\ lastAppend' = tx
    /\ appends' = appends + 1

write_insert(k, v) ==
    LET record == RecordNew(k, v, tx_id + 1)
        entry  == [ file_id        |-> active_file_id,
                    value_position |-> ValuePosition(offset, record),
                    value_size     |-> record.value_size,
                    tx_id          |-> tx_id + 1 ]
    IN  /\ tx_id' = tx_id + 1
        /\ keydir' = Put(keydir, k, entry)
        /\ WriteTail(record)
        /\ NoteAppend(k, tx_id + 1)

write_delete(k) ==
    LET record == RecordNew(k, TOMBSTONE_BYTES, tx_id + 1)
    IN  /\ tx_id' = tx_id + 1
        /\ keydir' = Del(keydir, k)
        /\ WriteTail(record)
        /\ NoteAppend(k, tx_id + 1)

Insert(k, v) ==
    /\ opened
    /\ merge_run = NoMerge
    /\ appends < AppendBound
    /\ v.n = appends + 1
    /\ write_insert(k, v)
    /\ lastOp' = [op |-> "insert", res |-> "ok"]
    /\ lastW' = [lastW EXCEPT ![k] = v]
    /\ sessW' = [sessW EXCEPT ![k] = v]
    /\ UNCHANGED << sidecars, opened, options, maxTxAtOpen, failed >>
    /\ UNCHANGED conc

\* remove without the contains_key pre-check
RemoveUnchecked(k) ==
    /\ opened
    /\ merge_run = NoMerge
    /\ appends < AppendBound
    /\ write_delete(k)
    /\ lastOp' = [op |-> "remove", res |-> "ok"]
    /\ lastW' = [lastW EXCEPT ![k] = Absent]
    /\ sessW' = [sessW EXCEPT ![k] = IF @ = NoWrite THEN NoWrite ELSE Removed]
    /\ UNCHANGED << sidecars, opened, options, maxTxAtOpen, failed >>
    /\ UNCHANGED conc

Remove(k) ==
    /\ opened
    /\ merge_run = NoMerge
    /\ IF k \in DOMAIN keydir
       THEN /\ appends < AppendBound
            /\ write_delete(k)
       ELSE UNCHANGED << files, keydir, active_file, active_file_id, writer_file_id, offset,
                         tx_id,
                         everMax, lastAppend, appends >>
    /\ lastOp' = [op |-> "remove", res |-> "ok"]
    /\ lastW' = [lastW EXCEPT ![k] = Absent]
    /\ sessW' = [sessW EXCEPT ![k] = IF @ = NoWrite THEN NoWrite ELSE Removed]
    /\ UNCHANGED << sidecars, opened, options, maxTxAtOpen, failed >>
    /\ UNCHANGED conc

Flush ==
    /\ opened
    /\ merge_run = NoMerge
    /\ files' = FlushInto(files, writer_file_id, active_file)
    /\ active_file' = <<>>
    /\ lastOp' = [op |-> "flush", res |-> "ok"]
    /\ UNCHANGED << sidecars, opened, options, keydir, active_file_id, writer_file_id, offset,
                    tx_id, hist >>
    /\ UNCHANGED conc

\* Drop for Base : flush, then the engine is gone
Drop ==
    /\ opened
    /\ merge_run = NoMerge
    /\ files' = FlushInto(files, writer_file_id, active_file)
    /\ opened' = FALSE
    /\ keydir' = EmptyMap
    /\ active_file' = <<>>
    /\ active_file_id' = 0
    /\ writer_file_id' = 0
    /\ offset' = 0
    /\ tx_id' = 0
    /\ lastOp' = [op |-> "drop", res |-> IF active_file = <<>> THEN "ok" ELSE "flushed"]
    /\ sessW' = [k \in Keys |-> NoWrite]
    /\ maxTxAtOpen' = 0
    /\ lastAppend' = 0
    /\ failed' = FALSE
    /\ UNCHANGED << sidecars, options, lastW, everMax, appends >>
    /\ UNCHANGED conc

\* ------------------------------------------------------------- Base::merge
\* Base::all_db_file_ids taken for the list of files to merge
EveryDbFileId(fs, active) == DOMAIN fs

\* Base::inactive_db_file_ids : every data file id but the active one
inactive_db_file_ids(fs, active) == (DOMAIN fs) \ {active}

\* a merge loop without the `continue`
NeverSkip(kd, key, merge_pointer) == FALSE

\* the guard of the `continue` in the merge loop
MergeSkip(kd, key, merge_pointer) ==
    /\ key \in DOMAIN kd
    /\ kd[key].tx_id > merge_pointer.tx_id

\* the record_size bytes at record_offset of a source file
RecordAt(recs, off) == recs[CHOOSE i \in 1..Len(recs) : RecStart(recs, i) = off]

Front(s) == SubSeq(s, 1, Len(s) - 1)
Last(s) == s[Len(s)]

\* the copy of one record into the current merge output and the Keydir entry
\* installed for it; current_write_file_id is the id the loop body holds
MergeCopy(st, key, merge_pointer, current_write_file_id) ==
    [ st EXCEPT
        !.current_write_file =
            Append(@, RecordAt(files[merge_pointer.file_id], merge_pointer.record_offset)),
        !.offset = @ + merge_pointer.record_size,
        !.keydir = Put(@, key,
                       [ file_id        |-> current_write_file_id,
                         value_position |-> st.offset + HEADER_SIZE + merge_pointer.key_size,
                         value_size     |-> merge_pointer.value_size,
                         tx_id          |-> merge_pointer.tx_id ]) ]

\* one iteration of the merge loop.  st.inactive_db_files is the list the loop
\* pops ids from; st.writer is the id of the .merge file the BufWriter
\* current_write_file appends to (0: None); st.merge_files are the .merge
\* files as they are on disk.
MergeIteration(st, key, merge_pointer, max_file_size_bytes) ==
    IF MergeSkip(st.keydir, key, merge_pointer) THEN st
    ELSE IF st.inactive_db_files = <<>> THEN [st EXCEPT !.status = "panic"]
    ELSE
      LET id1   == Last(st.inactive_db_files)
          rest1 == Front(st.inactive_db_files)
          st1   == [st EXCEPT !.inactive_db_files = rest1]
      IN  IF st.writer # 0
          THEN IF st.offset > max_file_size_bytes
               THEN LET flushed == [st1 EXCEPT
                                      !.merge_files = Put(@, st.writer,
                                                          @[st.writer] \o st.current_write_file),
                                      !.current_write_file = <<>>]
                    IN  IF rest1 = <<>> THEN [flushed EXCEPT !.status = "panic"]
                        ELSE LET id2 == Last(rest1)
                                 st2 == [flushed EXCEPT !.inactive_db_files = Front(rest1)]
                             IN  IF id2 \in DOMAIN st.merge_files
                                 THEN [st2 EXCEPT !.status = "err"]
                                 ELSE MergeCopy([st2 EXCEPT !.merge_files = Put(@, id2, <<>>),
                                                            !.writer = id2],
                                                key, merge_pointer, id2)
               ELSE MergeCopy(st1, key, merge_pointer, id1)
          ELSE IF id1 \in DOMAIN st.merge_files
               THEN [st1 EXCEPT !.status = "err"]
               ELSE MergeCopy([st1 EXCEPT !.merge_files = Put(@, id1, <<>>), !.writer = id1],
                              key, merge_pointer, id1)

RECURSIVE MergeLoop(_, _, _, _)
MergeLoop(st, key_order, merge_pointers, max_file_size_bytes) ==
    IF key_order = <<>> \/ st.status # "ok" THEN st
    ELSE MergeLoop(MergeIteration(st, Head(key_order), merge_pointers[Head(key_order)],
                                  max_file_size_bytes),
                   Tail(key_order), merge_pointers, max_file_size_bytes)

\* the state of the loop after the last live merge pointer, for one listing
\* order of the inactive files and one iteration order of the pointers
MergeRun(file_order, key_order, merge_pointers) ==
    MergeLoop([ keydir             |-> keydir,
                inactive_db_files  |-> file_order,
                writer             |-> 0,
                current_write_file |-> <<>>,
                merge_files        |-> sidecars,
                offset             |-> 0,
                status             |-> "ok" ],
              key_order, merge_pointers, options.max_file_size_bytes)

\* the live winners of the inactive files
LiveMergePointers(fs, file_order) ==
    LET merge_pointers == load_latest_entries("MergePointer", fs, file_order)
    IN  [ k \in { k \in DOMAIN merge_pointers : merge_pointers[k].liveness = "Live" }
            |-> merge_pointers[k] ]

\* the directory after the removal of the inactive files and the rename of
\* the non-empty .merge files to their stems
MergeCommit(fs, active, merge_files) ==
    LET kept    == (DOMAIN fs) \ inactive_db_file_ids(fs, active)
        renamed == { m \in DOMAIN merge_files : Len(merge_files[m]) > 0 }
    IN  [ id \in kept \cup renamed |->
            IF id \in renamed THEN merge_files[id] ELSE fs[id] ]

\* what one run of merge leaves, for one listing order of the inactive files
\* and one iteration order of the live pointers: load_latest_entries fails
\* before anything is written, or the loop runs and, when it ends without a
\* panic or an error, the inactive files are removed and the .merge files
\* renamed
MergeResult(file_order, key_order) ==
    LET st == MergeRun(file_order, key_order, LiveMergePointers(files, file_order))
        flushed == IF st.writer # 0
                   THEN Put(st.merge_files, st.writer,
                            st.merge_files[st.writer] \o st.current_write_file)
                   ELSE st.merge_files
    IN  IF LoadError(files, file_order) # "none"
        THEN [ status |-> "err", keydir |-> keydir, files |-> files, sidecars |-> sidecars ]
        ELSE IF st.status = "ok"
        THEN [ status |-> "ok", keydir |-> st.keydir,
               files |-> MergeCommit(files, active_file_id, flushed), sidecars |-> EmptyMap ]
        ELSE [ status |-> st.status, keydir |-> st.keydir,
               files |-> files, sidecars |-> st.merge_files ]

\* the results of merge over the orders in which the directory lists its
\* files and the HashMap iterates over the live pointers
MergeResults ==
    UNION { { MergeResult(file_order, key_order) :
                key_order \in Orders(DOMAIN LiveMergePointers(files, file_order)) } :
            file_order \in Orders(inactive_db_file_ids(files, active_file_id)) }

Merge ==
    /\ opened
    /\ merge_run = NoMerge
    /\ \E result \in MergeResults :
          /\ keydir' = result.keydir
          /\ files' = result.files
          /\ sidecars' = result.sidecars
          /\ lastOp' = [op |-> "merge", res |-> result.status]
          /\ failed' = (failed \/ result.status # "ok")
    /\ UNCHANGED << opened, options, active_file, active_file_id, writer_file_id, offset, tx_id,
                    lastW, sessW, everMax, maxTxAtOpen, lastAppend, appends >>
    /\ UNCHANGED conc

Next ==
    \/ Open
    \/ \E k \in Keys, v \in Values : Insert(k, v)
    \/ \E k \in Keys : Remove(k)
    \/ Flush
    \/ Merge
    \/ Drop

Spec == Init /\ [][Next]_vars

\* ------------------------------------------------- damage to the data files
\* the damaged places of a directory: records whose bytes no longer match
\* their stored hash, and files that end inside their last record
FaultCount(fs) ==
    Cardinality({ p \in UNION { { <<id, i>> : i \in 1..Len(fs[id]) } : id \in DOMAIN fs } :
                    ~fs[p[1]][p[2]].hash_ok })
    + Cardinality({ id \in DOMAIN fs : Len(fs[id]) > 0 /\ fs[id][Len(fs[id])].cut > 0 })

\* while no engine is open, a byte of the body of a record changes on disk
DamageRecord(id, i) ==
    /\ ~opened
    /\ id \in DOMAIN files
    /\ i \in 1..Len(files[id])
    /\ FaultCount(files) < MaxFaults
    /\ appends <= MaxFaultAppends
    /\ files[id][i].hash_ok
    /\ files' = [files EXCEPT ![id][i].hash_ok = FALSE]
    /\ lastOp' = [op |-> "damage", res |-> "ok"]
    /\ UNCHANGED << sidecars, opened, options, keydir, active_file, active_file_id,
                    writer_file_id,
                    offset, tx_id, hist >>
    /\ UNCHANGED conc

\* the places inside a record where a file can end
CutPlaces == {"header", "body"}

\* the bytes missing when the file ends after the first byte of the header,
\* and when it ends before the last byte of the body
CutAt(r, place) == IF place = "header" THEN RecordLen(r) - 1 ELSE 1

\* while no engine is open, a data file loses the end of its last record
TruncateFile(id, place) ==
    /\ ~opened
    /\ id \in DOMAIN files
    /\ FaultCount(files) < MaxFaults
    /\ appends <= MaxFaultAppends
    /\ Len(files[id]) > 0
    /\ files[id][Len(files[id])].cut = 0
    /\ files' = [files EXCEPT ![id][Len(files[id])].cut = CutAt(files[id][Len(files[id])], place)]
    /\ lastOp' = [op |-> "truncate", res |-> "ok"]
    /\ UNCHANGED << sidecars, opened, options, keydir, active_file, active_file_id,
                    writer_file_id,
                    offset, tx_id, hist >>
    /\ UNCHANGED conc

FaultNext ==
    \/ Next
    \/ OpenFails
    \/ \E id \in 1..MaxFileId, i \in 1..MaxAppends : DamageRecord(id, i)
    \/ \E id \in 1..MaxFileId, place \in CutPlaces : TruncateFile(id, place)

FaultInit == InitWith({DefaultMaxFileSize})
FaultSpec == FaultInit /\ [][FaultNext]_vars

\* ------------------------------------------ tasks on clones of one handle
ReadOps  == {"get", "contains_key", "keys"}
WriteOps == {"insert", "remove", "merge", "flush"}

\* every method takes the read guard
EveryOpReads(op) == "read"

\* insert takes the read guard
InsertReads(op) == IF op \in ReadOps \cup {"insert"} THEN "read" ELSE "write"

\* the guard a method of B2 takes on self.base
LockKind(op) == IF op \in ReadOps THEN "read" ELSE "write"

\* RwLock::with_max_readers(_, options.max_readers): a read guard is given
\* while no write guard is out and fewer than max_readers read guards are, a
\* write guard while no guard at all is out
CanLock(kind) ==
    IF kind = "read"
    THEN rwlock.writer = 0 /\ Cardinality(rwlock.readers) < options.max_readers
    ELSE rwlock.writer = 0 /\ rwlock.readers = {}

\* the tasks inside insert or remove, or waiting to enter
WritesInFlight ==
    Cardinality({ t \in Tasks : task[t].pc # "idle" /\ task[t].op \in {"insert", "remove"} })

\* a task calls a method of its clone of the handle and waits for the guard
Call(t, op, k) ==
    /\ task[t].pc = "idle"
    /\ op \in {"insert", "remove"} => appends + WritesInFlight < MaxLockAppends
    /\ op \in {"keys", "merge", "flush"} => k = "k1"
    /\ task' = [task EXCEPT ![t] = [IdleTask EXCEPT !.pc = "waiting", !.op = op, !.key = k]]
    /\ UNCHANGED << files, sidecars, opened, options, merge_run, keydir, active_file,
                    active_file_id, writer_file_id,
                    offset, tx_id, lastOp, hist, rwlock, wire >>

\* self.base.read().await, self.base.write().await
Acquire(t) ==
    /\ task[t].pc = "waiting"
    /\ CanLock(LockKind(task[t].op))
    /\ rwlock' = IF LockKind(task[t].op) = "read"
                 THEN [rwlock EXCEPT !.readers = @ \cup {t}]
                 ELSE [rwlock EXCEPT !.writer = t]
    /\ task' = [task EXCEPT ![t].pc = "locked"]
    /\ UNCHANGED << files, sidecars, opened, options, merge_run, keydir, active_file,
                    active_file_id, writer_file_id,
                    offset, tx_id, lastOp, hist, wire >>

\* the method returns and its guard is dropped
Release(t) ==
    /\ task[t].pc = "done"
    /\ rwlock' = [ writer  |-> IF rwlock.writer = t THEN 0 ELSE rwlock.writer,
                   readers |-> rwlock.readers \ {t} ]
    /\ task' = [task EXCEPT ![t] = IdleTask]
    /\ UNCHANGED << files, sidecars, opened, options, merge_run, keydir, active_file,
                    active_file_id, writer_file_id,
                    offset, tx_id, lastOp, hist, wire >>

\* Base::get, Base::contains_key, Base::keys : read the Keydir and the files
ReadStep(t) ==
    /\ task[t].pc = "locked"
    /\ task[t].op \in ReadOps
    /\ task' = [task EXCEPT ![t].pc = "done"]
    /\ UNCHANGED << files, sidecars, opened, options, merge_run, keydir, active_file,
                    active_file_id, writer_file_id,
                    offset, tx_id, lastOp, hist, rwlock, wire >>

\* Base::remove of a key that is not in the Keydir
RemoveAbsent(t) ==
    /\ task[t].pc = "locked"
    /\ task[t].op = "remove"
    /\ task[t].key \notin DOMAIN keydir
    /\ task' = [task EXCEPT ![t].pc = "done"]
    /\ UNCHANGED << files, sidecars, opened, options, merge_run, keydir, active_file,
                    active_file_id, writer_file_id,
                    offset, tx_id, lastOp, hist, rwlock, wire >>

\* write_insert, write_delete : self.tx_id += 1
IncrementTxId(t) ==
    /\ task[t].pc = "locked"
    /\ \/ task[t].op = "insert"
       \/ task[t].op = "remove" /\ task[t].key \in DOMAIN keydir
    /\ tx_id' = tx_id + 1
    /\ task' = [task EXCEPT ![t].pc = "tx"]
    /\ UNCHANGED << files, sidecars, opened, options, merge_run, keydir, active_file,
                    active_file_id, writer_file_id,
                    offset, lastOp, hist, rwlock, wire >>

\* the value a task inserts
ValueOf(t) == [bytes |-> "v", n |-> t]

\* write_insert, write_delete : Record::new with self.tx_id, and the first
\* piece of the record goes to the writer
BuildRecord(t) ==
    /\ task[t].pc = "tx"
    /\ LET record == RecordNew(task[t].key,
                              IF task[t].op = "insert" THEN ValueOf(t) ELSE TOMBSTONE_BYTES,
                              tx_id)
       IN  /\ task' = [task EXCEPT ![t].pc = "writing", ![t].record = record]
           /\ wire' = Append(wire, [task |-> t, tx_id |-> record.tx_id, piece |-> 1])
    /\ UNCHANGED << files, sidecars, opened, options, merge_run, keydir, active_file,
                    active_file_id, writer_file_id,
                    offset, tx_id, lastOp, hist, rwlock >>

\* write_insert, write_delete : the rest of the record goes to the writer,
\* then the Keydir, the offset, the rollover and the flush
FinishWrite(t) ==
    /\ task[t].pc = "writing"
    /\ LET record == task[t].record
           entry  == [ file_id        |-> active_file_id,
                       value_position |-> ValuePosition(offset, record),
                       value_size     |-> record.value_size,
                       tx_id          |-> tx_id ]
       IN  /\ wire' = Append(wire, [task |-> t, tx_id |-> record.tx_id, piece |-> 2])
           /\ keydir' = IF task[t].op = "insert" THEN Put(keydir, task[t].key, entry)
                        ELSE Del(keydir, task[t].key)
           /\ WriteTail(record)
           /\ NoteAppend(task[t].key, record.tx_id)
    /\ task' = [task EXCEPT ![t].pc = "done"]
    /\ UNCHANGED << sidecars, opened, options, merge_run, tx_id, lastOp, lastW, sessW,
                    maxTxAtOpen,
                    failed, rwlock >>

\* Base::flush
FlushStep(t) ==
    /\ task[t].pc = "locked"
    /\ task[t].op = "flush"
    /\ files' = FlushInto(files, writer_file_id, active_file)
    /\ active_file' = <<>>
    /\ task' = [task EXCEPT ![t].pc = "done"]
    /\ UNCHANGED << sidecars, opened, options, merge_run, keydir, active_file_id,
                    writer_file_id, offset, tx_id,
                    lastOp, hist, rwlock, wire >>

\* Base::merge
MergeStep(t) ==
    /\ task[t].pc = "locked"
    /\ task[t].op = "merge"
    /\ \E result \in MergeResults :
          /\ keydir' = result.keydir
          /\ files' = result.files
          /\ sidecars' = result.sidecars
          /\ failed' = (failed \/ result.status # "ok")
    /\ task' = [task EXCEPT ![t].pc = "done"]
    /\ UNCHANGED << opened, options, merge_run, active_file, active_file_id, writer_file_id,
                    offset, tx_id, lastOp,
                    lastW, sessW, everMax, maxTxAtOpen, lastAppend, appends, rwlock, wire >>

LockNext ==
    \/ \E t \in Tasks, op \in ReadOps \cup WriteOps, k \in Keys : Call(t, op, k)
    \/ \E t \in Tasks : Acquire(t)
    \/ \E t \in Tasks : ReadStep(t)
    \/ \E t \in Tasks : RemoveAbsent(t)
    \/ \E t \in Tasks : IncrementTxId(t)
    \/ \E t \in Tasks : BuildRecord(t)
    \/ \E t \in Tasks : FinishWrite(t)
    \/ \E t \in Tasks : FlushStep(t)
    \/ \E t \in Tasks : MergeStep(t)
    \/ \E t \in Tasks : Release(t)

\* an engine opened on an empty directory, shared by the tasks
LockInit ==
    /\ files = Put(EmptyMap, NewActiveFileId(EmptyMap), <<>>)
    /\ sidecars = EmptyMap
    /\ opened = TRUE
    /\ options \in [max_file_size_bytes : MaxFileSizes, max_readers : {1, DefaultMaxReaders},
                     flush_behavior : FlushBehaviors]
    /\ keydir = RecoverKeydir(EmptyMap)
    /\ active_file = <<>>
    /\ active_file_id = NewActiveFileId(EmptyMap)
    /\ offset = 0
    /\ tx_id = InitialTxId(RecoverKeydir(EmptyMap))
    /\ lastOp = [op |-> "open", res |-> "ok"]
    /\ lastW = [k \in Keys |-> Absent]
    /\ sessW = [k \in Keys |-> NoWrite]
    /\ everMax = [k \in Keys |-> 0]
    /\ maxTxAtOpen = 0
    /\ lastAppend = 0
    /\ failed = FALSE
    /\ appends = 0
    /\ rwlock = FreeLock
    /\ task = [t \in Tasks |-> IdleTask]
    /\ wire = <<>>
    /\ writer_file_id = NewActiveFileId(EmptyMap)
    /\ merge_run = NoMerge

LockSpec == LockInit /\ [][LockNext]_vars

\* ------------------------------------------------ a rollover that fails
\* the tail of a write whose rollover stops at the creation of the new file,
\* on an error or because the caller drops the future there: the buffer has
\* been flushed and active_file_id incremented, the writer is still the one
\* of the file that is full, and the flush of AfterEveryWrite is not reached
WriteTailFails(record) ==
    LET buffered   == Append(active_file, record)
        new_offset == offset + EntrySize(record)
    IN  /\ new_offset >= options.max_file_size_bytes
        /\ active_file_id < FileIdBound
        /\ files' = FlushInto(files, writer_file_id, buffered)
        /\ active_file' = <<>>
        /\ active_file_id' = active_file_id + 1
        /\ writer_file_id' = writer_file_id
        /\ offset' = new_offset

\* insert whose rollover fails; a handle sees at most one such failure
InsertFails(k, v) ==
    /\ opened
    /\ ~failed
    /\ merge_run = NoMerge
    /\ appends < AppendBound
    /\ v.n = appends + 1
    /\ LET record == RecordNew(k, v, tx_id + 1)
           entry  == [ file_id        |-> active_file_id,
                       value_position |-> ValuePosition(offset, record),
                       value_size     |-> record.value_size,
                       tx_id          |-> tx_id + 1 ]
       IN  /\ tx_id' = tx_id + 1
           /\ keydir' = Put(keydir, k, entry)
           /\ WriteTailFails(record)
           /\ NoteAppend(k, tx_id + 1)
    /\ lastOp' = [op |-> "insert", res |-> "err"]
    /\ lastW' = [lastW EXCEPT ![k] = v]
    /\ sessW' = [sessW EXCEPT ![k] = v]
    /\ failed' = TRUE
    /\ UNCHANGED << sidecars, opened, options, maxTxAtOpen >>
    /\ UNCHANGED conc

\* remove whose rollover fails
RemoveFails(k) ==
    /\ opened
    /\ ~failed
    /\ merge_run = NoMerge
    /\ k \in DOMAIN keydir
    /\ appends < AppendBound
    /\ LET record == RecordNew(k, TOMBSTONE_BYTES, tx_id + 1)
       IN  /\ tx_id' = tx_id + 1
           /\ keydir' = Del(keydir, k)
           /\ WriteTailFails(record)
           /\ NoteAppend(k, tx_id + 1)
    /\ lastOp' = [op |-> "remove", res |-> "err"]
    /\ lastW' = [lastW EXCEPT ![k] = Absent]
    /\ sessW' = [sessW EXCEPT ![k] = IF @ = NoWrite THEN NoWrite ELSE Removed]
    /\ failed' = TRUE
    /\ UNCHANGED << sidecars, opened, options, maxTxAtOpen >>
    /\ UNCHANGED conc

\* ------------------------------------------- merge, one I/O step at a time
\* what a step of merge leaves alone
mergeFrame == << opened, options, active_file, active_file_id, offset, tx_id, lastW, sessW,
                 everMax, maxTxAtOpen, lastAppend, appends, rwlock, task, wire >>

\* merge lists the inactive files and loads their merge pointers
MergeBegin ==
    /\ opened
    /\ merge_run = NoMerge
    /\ \E file_order \in Orders(inactive_db_file_ids(files, active_file_id)) :
         IF LoadError(files, file_order) # "none"
         THEN /\ lastOp' = [op |-> "merge", res |-> "err"]
              /\ failed' = TRUE
              /\ UNCHANGED merge_run
         ELSE /\ \E key_order \in Orders(DOMAIN LiveMergePointers(files, file_order)) :
                    merge_run' = [ phase    |-> "loop",
                                   keydir0  |-> keydir,
                                   st       |-> MergeRun(file_order, <<>>, EmptyMap),
                                   keys     |-> key_order,
                                   pointers |-> LiveMergePointers(files, file_order) ]
              /\ UNCHANGED << lastOp, failed >>
    /\ UNCHANGED << files, sidecars, keydir, writer_file_id >>
    /\ UNCHANGED mergeFrame

\* the loop state after the body has run for the next key
NextIteration ==
    MergeIteration(merge_run.st, Head(merge_run.keys),
                   merge_run.pointers[Head(merge_run.keys)], options.max_file_size_bytes)

\* one run of the loop body; a panic or an error ends the call, and what the
\* output writer still buffers is lost with it
MergeIterate ==
    /\ merge_run.phase = "loop"
    /\ merge_run.keys # <<>>
    /\ keydir' = NextIteration.keydir
    /\ sidecars' = NextIteration.merge_files
    /\ IF NextIteration.status = "ok"
       THEN /\ merge_run' = [merge_run EXCEPT !.st = NextIteration, !.keys = Tail(@)]
            /\ UNCHANGED << lastOp, failed >>
       ELSE /\ merge_run' = NoMerge
            /\ lastOp' = [op |-> "merge", res |-> NextIteration.status]
            /\ failed' = TRUE
    /\ UNCHANGED << files, writer_file_id >>
    /\ UNCHANGED mergeFrame

\* the loop body stops between the creation of the output file and the
\* Keydir update (the source file cannot be opened, the copy fails, the
\* caller drops the future)
MergeCopyFails ==
    /\ merge_run.phase = "loop"
    /\ ~failed
    /\ merge_run.keys # <<>>
    /\ NextIteration.status = "ok"
    /\ NextIteration # merge_run.st
    /\ sidecars' = NextIteration.merge_files
    /\ merge_run' = NoMerge
    /\ lastOp' = [op |-> "merge", res |-> "err"]
    /\ failed' = TRUE
    /\ UNCHANGED << files, keydir, writer_file_id >>
    /\ UNCHANGED mergeFrame

\* a merge that goes on to the renames whatever is left to remove
RenameAtOnce(to_remove) == "rename"

\* the phase that follows the flush and each removal: the inactive files are
\* removed one after the other, then the .merge files are renamed
PhaseAfterRemove(to_remove) == IF to_remove = {} THEN "rename" ELSE "remove"

\* a listing that leaves out the empty .merge files
NonEmptyMergeFiles(merge_files_on_disk) ==
    { m \in DOMAIN merge_files_on_disk : Len(merge_files_on_disk[m]) > 0 }

\* Base::merge_files : every file of the directory with the extension merge
merge_files(merge_files_on_disk) == DOMAIN merge_files_on_disk

\* the .merge files the rename loop goes through: listed once, when the
\* removals are done
RenameList(phase, merge_files_on_disk) ==
    IF phase = "rename" THEN merge_files(merge_files_on_disk) ELSE {}

\* after the last pointer the output is flushed and the inactive files are
\* listed again
MergeFlush ==
    /\ merge_run.phase = "loop"
    /\ merge_run.keys = <<>>
    /\ sidecars' = IF merge_run.st.writer # 0
                   THEN Put(sidecars, merge_run.st.writer,
                            sidecars[merge_run.st.writer] \o merge_run.st.current_write_file)
                   ELSE sidecars
    /\ merge_run' =
          [ phase     |-> PhaseAfterRemove(inactive_db_file_ids(files, active_file_id)),
            pointers  |-> merge_run.pointers,
            to_remove |-> inactive_db_file_ids(files, active_file_id),
            to_rename |-> RenameList(PhaseAfterRemove(inactive_db_file_ids(files, active_file_id)),
                                     sidecars') ]
    /\ UNCHANGED << files, keydir, writer_file_id, lastOp, failed >>
    /\ UNCHANGED mergeFrame

\* remove_file of one inactive data file
MergeRemoveFile ==
    /\ merge_run.phase = "remove"
    /\ \E id \in merge_run.to_remove :
          /\ files' = Del(files, id)
          /\ writer_file_id' = IF id = writer_file_id THEN 0 ELSE writer_file_id
          /\ merge_run' =
                [ merge_run EXCEPT
                    !.phase     = PhaseAfterRemove(merge_run.to_remove \ {id}),
                    !.to_remove = @ \ {id},
                    !.to_rename = RenameList(PhaseAfterRemove(merge_run.to_remove \ {id}),
                                             sidecars) ]
    /\ UNCHANGED << sidecars, keydir, lastOp, failed >>
    /\ UNCHANGED mergeFrame

\* one .merge file is renamed to its stem, or removed when it is empty
MergeRenameFile ==
    /\ merge_run.phase = "rename"
    /\ \E m \in merge_run.to_rename :
          /\ files' = IF Len(sidecars[m]) > 0 THEN Put(files, m, sidecars[m]) ELSE files
          /\ sidecars' = Del(sidecars, m)
          /\ merge_run' = [merge_run EXCEPT !.to_rename = @ \ {m}]
    /\ UNCHANGED << keydir, writer_file_id, lastOp, failed >>
    /\ UNCHANGED mergeFrame

\* the listed .merge files are done: Ok(())
MergeReturn ==
    /\ merge_run.phase = "rename"
    /\ merge_run.to_rename = {}
    /\ merge_run' = NoMerge
    /\ lastOp' = [op |-> "merge", res |-> "ok"]
    /\ UNCHANGED << files, sidecars, keydir, writer_file_id, failed >>
    /\ UNCHANGED mergeFrame

\* an I/O call of merge returns an error, or the caller drops the future at
\* an await: the call ends where it is (at most once on a handle, and not
\* after another call has failed on it)
MergeFails ==
    /\ merge_run.phase \in {"loop", "remove", "rename"}
    /\ ~failed
    /\ merge_run' = NoMerge
    /\ lastOp' = [op |-> "merge", res |-> "err"]
    /\ failed' = TRUE
    /\ UNCHANGED << files, sidecars, keydir, writer_file_id >>
    /\ UNCHANGED mergeFrame

IoNext ==
    \/ Open
    \/ \E k \in Keys, v \in Values : Insert(k, v)
    \/ \E k \in Keys : Remove(k)
    \/ \E k \in Keys, v \in Values : InsertFails(k, v)
    \/ \E k \in Keys : RemoveFails(k)
    \/ Flush
    \/ Drop
    \/ MergeBegin
    \/ MergeIterate
    \/ MergeCopyFails
    \/ MergeFlush
    \/ MergeRemoveFile
    \/ MergeRenameFile
    \/ MergeReturn
    \/ MergeFails

IoInit == InitWith({IoMaxFileSize})
IoSpec == IoInit /\ [][IoNext]_vars

\* the runs with the smallest file size
RolloverInit == InitWith({TinyMaxFileSize})
RolloverSpec == RolloverInit /\ [][Next]_vars

TypeOK ==
    /\ DOMAIN files \subseteq 1..FileIdBound
    /\ (opened /\ ~failed) => active_file_id \in DOMAIN files
    /\ appends <= MaxAppends

\* ------------------------------------------------------- reading the state
\* the records of a data file, those still in the active file's buffer included
Contents(id) ==
    files[id] \o (IF opened /\ id = writer_file_id THEN active_file ELSE <<>>)

\* the records of key k in the data files of a set of ids, as <<id, index>>
RecordsOf(k, ids) ==
    { p \in UNION { { <<id, i>> : i \in 1..Len(Contents(id)) } : id \in ids } :
        Contents(p[1])[p[2]].key = k }

\* the entry designates the value of a record of key k with the entry's tx_id
RefersTo(entry, k) ==
    /\ entry.file_id \in DOMAIN files
    /\ \E i \in 1..Len(Contents(entry.file_id)) :
         LET r == Contents(entry.file_id)[i]
         IN  /\ r.key = k
             /\ r.tx_id = entry.tx_id
             /\ entry.value_position =
                  RecStart(Contents(entry.file_id), i) + HEADER_SIZE + EncodedKeyLen(k)
             /\ entry.value_size = EncodedValueLen(r.value)

\* the tx_ids of all records in increasing FileId order, file order within
RECURSIVE TxSeq(_)
TxSeq(ids) ==
    IF ids = <<>> THEN <<>>
    ELSE [ i \in 1..Len(Contents(Head(ids))) |-> Contents(Head(ids))[i].tx_id ]
         \o TxSeq(Tail(ids))

MergeReturnedOk == lastOp = [op |-> "merge", res |-> "ok"]

\* ------------------------------------------------------------------ claims

\* C1: on one open handle, once everything written is flushed, get(k)
\* returns Some(v) when the last write to k on the handle was insert(k, v),
\* whatever successful inserts, removes, merges, flushes and rollovers
\* happened.
C1_ReadYourWrites ==
    (opened /\ ~failed /\ active_file = <<>>) =>
        \A k \in Keys : sessW[k] \in Values => Get(k) = Ok(sessW[k])

\* C2: right after a reopen, every key whose last write was insert(k, v)
\* reads Some(v), and every key removed last or never written is not in the
\* Keydir.
C2_Persistence ==
    (opened /\ lastOp.op = "open") =>
        \A k \in Keys :
            IF lastW[k] \in Values
            THEN Get(k) = Ok(lastW[k])
            ELSE k \notin DOMAIN keydir

\* C3: after insert(k, v) then remove(k) on one handle with no later insert
\* of k, get(k) is None and k is not in the Keydir (contains_key is false,
\* keys() does not list k).
C3_DeleteSemantics ==
    (opened /\ ~failed) =>
        \A k \in Keys : sessW[k] = Removed => (k \notin DOMAIN keydir /\ Get(k) = None)

\* C4: a successful merge preserves every readable value: get(k) = Some(v)
\* before it implies get(k) = Some(v) after it.
C4_MergePreservesValues ==
    [][ (lastOp'.op = "merge" /\ lastOp'.res = "ok") =>
          \A k \in Keys :
              Get(k).tag = "Some" => GetIn(files', keydir', k) = Get(k) ]_vars

\* C5: merge never adds a key to the Keydir.
C5_MergeAddsNoKey ==
    [][ lastOp'.op = "merge" => (DOMAIN keydir' \subseteq DOMAIN keydir) ]_vars

\* C6: the entry of every key in the Keydir refers to the record with the
\* highest tx_id among all records ever appended for that key.
C6_KeydirLatest ==
    opened => \A k \in DOMAIN keydir :
                 /\ keydir[k].tx_id = everMax[k]
                 /\ RefersTo(keydir[k], k)

\* C7: every record appended after an open has a tx_id greater than the
\* tx_id of every record that was in the data files at that open.
C7_TxIdContinues ==
    (opened /\ lastAppend # 0) => lastAppend > maxTxAtOpen

\* C8: tx_ids are strictly increasing in file order within each data file and
\* across data files in increasing FileId order.
C8_TxIdMonotone ==
    LET txs == TxSeq(SortedSeq(DOMAIN files))
    IN  \A i, j \in 1..Len(txs) : i < j => txs[i] < txs[j]

\* C9: after a successful merge each key has at most one record in the
\* inactive files, that record is the key's highest-tx_id record, and a key
\* whose latest record is a tombstone has no record in the inactive files.
C9_MergeUniqueness ==
    MergeReturnedOk =>
        \A k \in Keys :
            LET inactive == RecordsOf(k, (DOMAIN files) \ {active_file_id})
                all      == RecordsOf(k, DOMAIN files)
            IN  /\ Cardinality(inactive) <= 1
                /\ \A p \in inactive, q \in all :
                      Contents(q[1])[q[2]].tx_id <= Contents(p[1])[p[2]].tx_id

\* the winner of key k among the inactive files is a tombstone or there is a
\* record of k with a greater tx_id in the active file
DeadOrShadowed(k) ==
    LET inactive == (DOMAIN files) \ {active_file_id}
        winners  == load_latest_entries("MergePointer", files, SortedSeq(inactive))
    IN  k \in DOMAIN winners =>
          \/ winners[k].liveness = "Deleted"
          \/ \E i \in 1..Len(Contents(active_file_id)) :
                /\ Contents(active_file_id)[i].key = k
                /\ Contents(active_file_id)[i].tx_id > winners[k].tx_id

\* C10: when every key of the inactive files is dead or shadowed by a newer
\* write in the active file, a successful merge leaves the active file as
\* the only data file.
C10_MergeLeavesActiveOnly ==
    [][ (lastOp'.op = "merge" /\ lastOp'.res = "ok" /\ \A k \in Keys : DeadOrShadowed(k)) =>
          DOMAIN files' = {active_file_id} ]_vars


\* the bytes of all data files on disk
RECURSIVE SumBytes(_, _)
SumBytes(fs, ids) ==
    IF ids = {} THEN 0
    ELSE LET id == CHOOSE id \in ids : TRUE
         IN  SeqBytes(fs[id]) + SumBytes(fs, ids \ {id})

TotalSize(fs) == SumBytes(fs, DOMAIN fs)

\* C11: the data files of the directory hold no more bytes after a
\* successful merge than they held before it.
C11_MergeNonExpansion ==
    [][ (lastOp'.op = "merge" /\ lastOp'.res = "ok") =>
          TotalSize(files') <= TotalSize(files) ]_vars


\* C12: between operations (after open, after every insert and remove, after
\* merge) no data file of the directory is zero bytes long.
C12_NoZeroByteFiles ==
    \A id \in DOMAIN files : SeqBytes(files[id]) > 0


\* C13: merge, whatever its result, leaves the active file on disk and the
\* buffered writes as they were, creates no .merge output under the active
\* file's id, installs no entry of its own under that id, and leaves
\* active_file_id, the write offset and the tx_id counter unchanged.
C13_MergeLeavesActiveFile ==
    [][ lastOp'.op = "merge" =>
          /\ active_file_id \in DOMAIN files'
          /\ files'[active_file_id] = files[active_file_id]
          /\ active_file' = active_file
          /\ active_file_id \notin DOMAIN sidecars'
          /\ \A k \in DOMAIN keydir' :
                (k \notin DOMAIN keydir \/ keydir'[k] # keydir[k]) =>
                    keydir'[k].file_id # active_file_id
          /\ active_file_id' = active_file_id
          /\ offset' = offset
          /\ tx_id' = tx_id ]_vars

\* a successful merge has left an output file next to an active file that
\* holds records
C13_Witness ==
    /\ MergeReturnedOk
    /\ Len(files[active_file_id]) > 0
    /\ DOMAIN files # {active_file_id}


\* C14: remove(k) of a key that is not in the Keydir returns Ok, appends no
\* record, and leaves the Keydir, the tx_id counter, the write offset,
\* active_file_id, the buffered writes and every file as they were.
C14_RemoveAbsentIsNoOp ==
    [][ \A k \in Keys :
          (k \notin DOMAIN keydir /\ Remove(k)) =>
              /\ lastOp' = [op |-> "remove", res |-> "ok"]
              /\ UNCHANGED << files, sidecars, keydir, active_file, active_file_id,
                              writer_file_id,
                              offset, tx_id, appends >> ]_vars

\* a remove has returned on a handle that has appended nothing, with one key
\* in the Keydir and the other not
C14_Witness ==
    /\ opened
    /\ lastOp = [op |-> "remove", res |-> "ok"]
    /\ lastAppend = 0
    /\ DOMAIN keydir # {}
    /\ DOMAIN keydir # Keys


\* C15: a successful open adds exactly one data file, empty and under an id
\* no data file of the directory has, and changes no other file; and after
\* every step (open, write with or without rollover, flush, merge) the
\* active file exists and its id is greater than the id of every other data
\* file.
C15_FreshGreatestActiveFile ==
    [][ /\ (lastOp'.op = "open" /\ opened') =>
              /\ active_file_id' \notin DOMAIN files
              /\ DOMAIN files' = (DOMAIN files) \cup {active_file_id'}
              /\ files'[active_file_id'] = <<>>
              /\ \A id \in DOMAIN files : files'[id] = files[id]
        /\ opened' =>
              /\ active_file_id' \in DOMAIN files'
              /\ \A id \in (DOMAIN files') \ {active_file_id'} : id < active_file_id' ]_vars

\* an engine has been opened on a directory from which a merge had removed
\* files: the new active id is beyond the number of data files
C15_Witness ==
    /\ opened
    /\ lastOp = [op |-> "open", res |-> "ok"]
    /\ active_file_id > Cardinality(DOMAIN files)


IsPrefix(s, t) == Len(s) <= Len(t) /\ SubSeq(t, 1, Len(s)) = s

\* C18: with flush_behavior WhenFull, no insert, remove or drop discards a
\* record appended before it (a rollover writes the buffered records to the
\* file it closes), and after a drop every record, those that were still
\* buffered included, is in its data file on disk, where the next open reads
\* it.
C18_FlushOnDrop ==
    [][ (options.flush_behavior = "WhenFull" /\ lastOp'.op \in {"insert", "remove", "drop"}) =>
          \A id \in DOMAIN files :
              /\ id \in DOMAIN files'
              /\ IsPrefix(Contents(id), Contents(id)')
              /\ lastOp'.op = "drop" => files'[id] = Contents(id) ]_vars

\* an engine with flush_behavior WhenFull has been dropped with records
\* still in its buffer
C18_Witness ==
    /\ ~opened
    /\ lastOp = [op |-> "drop", res |-> "flushed"]
    /\ options.flush_behavior = "WhenFull"


\* the records of the data files that are on disk in full
CompleteRecords(fs) ==
    { p \in UNION { { <<id, i>> : i \in 1..Len(fs[id]) } : id \in DOMAIN fs } :
        fs[p[1]][p[2]].cut = 0 }

\* a record that is on disk in full does not match its stored hash
HasCorruptRecord(fs) == \E p \in CompleteRecords(fs) : ~fs[p[1]][p[2]].hash_ok

\* a data file ends inside its last record
HasTruncatedRecord(fs) ==
    \E id \in DOMAIN fs : \E i \in 1..Len(fs[id]) : fs[id][i].cut > 0

\* C19: an open of a directory in which a record of a data file fails the
\* hash check returns CorruptRecord, gives no engine, creates no file and
\* changes no file.
C19_CorruptRecordFailsOpen ==
    [][ (lastOp'.op = "open" /\ HasCorruptRecord(files)) =>
          /\ lastOp'.res = "CorruptRecord"
          /\ ~opened'
          /\ files' = files
          /\ sidecars' = sidecars ]_vars

\* an open has failed on a directory with a damaged record in the second of
\* its data files
C19_Witness ==
    /\ lastOp = [op |-> "open", res |-> "CorruptRecord"]
    /\ ~opened
    /\ \E id \in DOMAIN files : id > 1 /\ \E i \in 1..Len(files[id]) : ~files[id][i].hash_ok

\* C20: an open of a directory in which a data file ends inside a record
\* (after the first byte of the header, before the last byte of the body)
\* returns an error.
C20_TruncatedRecordFailsOpen ==
    (lastOp.op = "open" /\ HasTruncatedRecord(files)) => lastOp.res # "ok"


\* the task holds a guard on the engine and is inside a method of Base
Executing(t) == task[t].pc \notin {"idle", "waiting"}

C17_WholeRecordsIncreasingTxIds ==
    /\ \A i \in 1..Len(wire) :
          IF wire[i].piece = 1
          THEN i < Len(wire) => wire[i + 1] = [wire[i] EXCEPT !.piece = 2]
          ELSE i > 1 /\ wire[i - 1] = [wire[i] EXCEPT !.piece = 1]
    /\ \A i, j \in 1..Len(wire) :
          (i < j /\ wire[i].piece = 1 /\ wire[j].piece = 1) => wire[i].tx_id < wire[j].tx_id

\* a task is in the middle of writing a record after the other task has
\* appended one, and the other task is waiting for the write guard
C17_Witness ==
    \E t1, t2 \in Tasks :
        /\ task[t1].pc = "writing"
        /\ task[t2].pc = "waiting" /\ task[t2].op = "flush"
        /\ Len(wire) = 3
        /\ wire[1].task = t2


\* C21: after every insert and remove the write offset is the number of
\* bytes appended so far to the file named active_file_id: a write that
\* reaches max_file_size_bytes switches to a new file and leaves offset 0.
C21_OffsetIsActiveFileLength ==
    (opened /\ lastOp.op \in {"insert", "remove"}) =>
        offset = SeqBytes(Contents(active_file_id))


\* the length of the longest record a write appends
MaxRecordLen ==
    Max({ RecordLen(RecordNew(k, v, 0)) : k \in Keys, v \in Values \cup {TOMBSTONE_BYTES} })

\* C22: the data file that an insert or remove closes by rolling over holds
\* at least max_file_size_bytes bytes and at most max_file_size_bytes plus
\* the length of the longest record.
C22_ClosedFileSizeBound ==
    [][ (lastOp'.op \in {"insert", "remove"} /\ active_file_id' # active_file_id) =>
          /\ SeqBytes(files'[active_file_id]) >= options.max_file_size_bytes
          /\ SeqBytes(files'[active_file_id]) <= options.max_file_size_bytes + MaxRecordLen ]_vars


\* the entry designates, in the data file fs[entry.file_id], the value of a
\* record of key k with the entry's tx_id and value_size
RefersToIn(fs, entry, k) ==
    /\ entry.file_id \in DOMAIN fs
    /\ \E i \in 1..Len(fs[entry.file_id]) :
         LET r == fs[entry.file_id][i]
         IN  /\ r.key = k
             /\ r.tx_id = entry.tx_id
             /\ entry.value_position =
                  RecStart(fs[entry.file_id], i) + HEADER_SIZE + r.key_size
             /\ entry.value_size = r.value_size

\* C23: after a successful merge, every Keydir entry the merge installed
\* names the output file that received the record's bytes and the position
\* of the value inside that file, with the record's value_size and tx_id.
C23_MergeEntryNamesOutputFile ==
    [][ (lastOp'.op = "merge" /\ lastOp'.res = "ok") =>
          \A k \in DOMAIN keydir' :
              (k \notin DOMAIN keydir \/ keydir'[k] # keydir[k]) =>
                  RefersToIn(files', keydir'[k], k) ]_vars


\* C24: merge never ends on an empty list of inactive FileIds: it takes a
\* further id only when it opens a new output file, so the ids last however
\* many live keys there are to copy.
C24_MergeNeverRunsOutOfIds ==
    lastOp.op = "merge" => lastOp.res # "panic"


\* the keys of the records a merge run has copied into its output files
CopiedKeys(st) ==
    { st.current_write_file[i].key : i \in 1..Len(st.current_write_file) }
    \cup UNION { { st.merge_files[id][i].key : i \in 1..Len(st.merge_files[id]) } :
                 id \in (DOMAIN st.merge_files) \ (DOMAIN sidecars) }

OutputComplete ==
    \A k \in DOMAIN merge_run.pointers :
        \/ MergeSkip(keydir, k, merge_run.pointers[k])
        \/ \E m \in DOMAIN sidecars : \E i \in 1..Len(sidecars[m]) :
              /\ sidecars[m][i].key = k
              /\ sidecars[m][i].tx_id = merge_run.pointers[k].tx_id

\* C26: a step of merge removes a data file only when every surviving record
\* has been copied and the output flushed to its .merge file, and renames or
\* removes a .merge file only when none of the inactive data files the run
\* listed is left.
C26_MergeStepOrder ==
    [][ /\ (\E id \in DOMAIN files : id \notin DOMAIN files') =>
              (merge_run.phase = "remove" /\ OutputComplete)
        /\ (\E m \in DOMAIN sidecars : m \notin DOMAIN sidecars') =>
              (merge_run.phase = "rename" /\ merge_run.to_remove = {}) ]_vars

\* a merge has removed the inactive files and renamed one of its .merge
\* files, and has another one still to rename
C26_Witness ==
    /\ merge_run.phase = "rename"
    /\ merge_run.to_rename # {}
    /\ DOMAIN files # {active_file_id}
    /\ DOMAIN merge_run.pointers # {}


\* C27: when merge returns Ok no .merge file is in the directory, and every
\* .merge file that leaves the directory has been renamed to its stem when
\* it held records and removed when it was empty.
C27_NoMergeFileAfterOk ==
    [][ /\ (merge_run # NoMerge /\ merge_run' = NoMerge /\ lastOp'.res = "ok") =>
              DOMAIN sidecars' = {}
        /\ \A m \in (DOMAIN sidecars) \ (DOMAIN sidecars') :
              IF Len(sidecars[m]) > 0
              THEN m \in DOMAIN files' /\ files'[m] = sidecars[m]
              ELSE files' = files ]_vars

\* a merge has returned Ok on a handle on which an earlier call had failed,
\* and has left a renamed output file
C27_Witness ==
    /\ MergeReturnedOk
    /\ failed
    /\ sidecars = EmptyMap
    /\ DOMAIN files # {active_file_id}


C29_WriterAndActiveIdInStep ==
    opened =>
        /\ merge_run = NoMerge => writer_file_id = active_file_id
        /\ lastOp = [op |-> "insert", res |-> "ok"] =>
              \A k \in DOMAIN keydir :
                  keydir[k].tx_id = lastAppend =>
                      /\ keydir[k].file_id \in DOMAIN files
                      /\ \E i \in 1..Len(Contents(keydir[k].file_id)) :
                            /\ Contents(keydir[k].file_id)[i].key = k
                            /\ Contents(keydir[k].file_id)[i].tx_id = lastAppend


\* the tx_ids of the records of key k in the data files on disk
TxIdsOf(fs, k) ==
    UNION { { fs[id][i].tx_id : i \in { i \in 1..Len(fs[id]) : fs[id][i].key = k } } :
            id \in DOMAIN fs }

\* C30: for every order in which the data file ids are listed,
\* load_latest_entries returns one entry for each key that has a record, the
\* entry carries the highest tx_id among the records of the key, and the
\* result is the same as for the ids in increasing order.
C30_LoadLatestOrderIndependent ==
    \A order \in Orders(DOMAIN files) :
        LET loaded == load_latest_entries("EntryWithLiveness", files, order)
        IN  /\ DOMAIN loaded = { k \in Keys : TxIdsOf(files, k) # {} }
            /\ \A k \in DOMAIN loaded : loaded[k].entry.tx_id = Max(TxIdsOf(files, k))
            /\ loaded = load_latest_entries("EntryWithLiveness", files, SortedSeq(DOMAIN files))


\* ------------------------------- values with the bytes of the tombstone
\* Base::insert of the value whose encoding is the encoding of the
\* tombstone: bincode writes the string "bitcask_tombstone" and the byte
\* slice Record::tombstone() as the same 8-byte length and 17 bytes
InsertTombstoneBytes(k) ==
    /\ opened
    /\ merge_run = NoMerge
    /\ appends < AppendBound
    /\ write_insert(k, TOMBSTONE_BYTES)
    /\ lastOp' = [op |-> "insert", res |-> "ok"]
    /\ lastW' = [lastW EXCEPT ![k] = TOMBSTONE_BYTES]
    /\ sessW' = [sessW EXCEPT ![k] = TOMBSTONE_BYTES]
    /\ UNCHANGED << sidecars, opened, options, maxTxAtOpen, failed >>
    /\ UNCHANGED conc

TombstoneNext ==
    \/ Open
    \/ \E k \in Keys, v \in Values : Insert(k, v)
    \/ \E k \in Keys : InsertTombstoneBytes(k)
    \/ \E k \in Keys : Remove(k)
    \/ Flush
    \/ Merge
    \/ Drop

TombstoneInit == InitWith({SmallMaxFileSize})
TombstoneSpec == TombstoneInit /\ [][TombstoneNext]_vars

\* the record a write step has appended: the last one of the writer's file
\* as it is after the step, the writer's buffer included unless the step
\* rolled over to a new writer
WrittenRecord ==
    Last(files'[writer_file_id]
         \o (IF writer_file_id' = writer_file_id THEN active_file' ELSE <<>>))

\* C31: the record written by an insert is classified Live by the scan of
\* recovery and by the scan of merge, whatever value was inserted, and the
\* record written by a remove is classified Deleted by both.
C31_OnlyRemoveWritesTombstones ==
    [][ appends' = appends + 1 =>
          LET r       == WrittenRecord
              byOpen  == EntryWithLivenessRead(r, 0, writer_file_id).liveness
              byMerge == MergePointerRead(r, 0, writer_file_id).liveness
          IN  /\ lastOp'.op = "insert" => (byOpen = "Live" /\ byMerge = "Live")
              /\ lastOp'.op = "remove" => (byOpen = "Deleted" /\ byMerge = "Deleted")
      ]_vars


\* ------------------------------------------- a key longer than 2^16 bytes
\* Base::insert of the long key: Record::new serializes it and casts the
\* length of the encoding to u16
InsertLongKey(v) ==
    /\ opened
    /\ merge_run = NoMerge
    /\ appends < AppendBound
    /\ v.n = appends + 1
    /\ write_insert(LongKey, v)
    /\ lastOp' = [op |-> "insert", res |-> "ok"]
    /\ UNCHANGED << lastW, sessW >>
    /\ UNCHANGED << sidecars, opened, options, maxTxAtOpen, failed >>
    /\ UNCHANGED conc

\* Base::remove of the long key
RemoveLongKey ==
    /\ opened
    /\ merge_run = NoMerge
    /\ IF LongKey \in DOMAIN keydir
       THEN /\ appends < AppendBound
            /\ write_delete(LongKey)
       ELSE UNCHANGED << files, keydir, active_file, active_file_id, writer_file_id,
                         offset, tx_id, everMax, lastAppend, appends >>
    /\ lastOp' = [op |-> "remove", res |-> "ok"]
    /\ UNCHANGED << lastW, sessW >>
    /\ UNCHANGED << sidecars, opened, options, maxTxAtOpen, failed >>
    /\ UNCHANGED conc

LongKeyNext ==
    \/ Open
    \/ OpenFails
    \/ \E k \in Keys, v \in Values : Insert(k, v)
    \/ \E v \in Values : InsertLongKey(v)
    \/ \E k \in Keys : Remove(k)
    \/ RemoveLongKey
    \/ Flush
    \/ Merge
    \/ Drop

LongKeyInit == InitWith({SmallMaxFileSize})
LongKeySpec == LongKeyInit /\ [][LongKeyNext]_vars

\* C32: every record a write appends carries in key_size and value_size the
\* lengths of its encoded key and value, its length is HEADER_SIZE plus the
\* two, and the write advances offset by the number of bytes appended.
C32_SizeFieldsAreLengths ==
    [][ appends' = appends + 1 =>
          LET r == WrittenRecord
          IN  /\ r.key_size = EncodedKeyLen(r.key)
              /\ r.value_size = EncodedValueLen(r.value)
              /\ RecordLen(r) = HEADER_SIZE + r.key_size + r.value_size
              /\ offset' = offset + RecordLen(r)
      ]_vars


\* ------------------------------------------- positions the scans derive
\* the index in a file of the last record of key k
LastRecordOf(recs, k) ==
    CHOOSE i \in 1..Len(recs) :
        /\ recs[i].key = k
        /\ \A j \in (i + 1)..Len(recs) : recs[j].key # k

\* C33: in the scan of a data file each record's position is derived from
\* the running offset at the start of the record: the EntryWithLiveness scan
\* gives value_position = record start + HEADER_SIZE + key_size, and the
\* position the MergePointer scan gives is that of the record's start (its
\* body_position is the record's start plus the header); the offset a record
\* starts at is the sum of the lengths of the records before it.
C33_ScanPositionsFromRecordStart ==
    \A id \in DOMAIN files :
        LET recs    == files[id]
            byOpen  == load_entries_from_file("EntryWithLiveness", files, id)
            byMerge == load_entries_from_file("MergePointer::read", files, id)
        IN  /\ \A k \in DOMAIN byOpen :
                 LET i == LastRecordOf(recs, k)
                 IN  byOpen[k].entry.value_position =
                         RecStart(recs, i) + HEADER_SIZE + recs[i].key_size
            /\ \A k \in DOMAIN byMerge :
                 LET i == LastRecordOf(recs, k)
                 IN  byMerge[k].body_position - HEADER_SIZE = RecStart(recs, i)
====
